---- MODULE Spec2Model ----
(***************************************************************************)
(* Model of scripts/process_invoices.py: the field extractors, the date    *)
(* normalizer, the amount reconstructor and the script body that assembles *)
(* records from the CSV rows and the labeled text blocks and writes the    *)
(* report.  Text is modelled as TLA+ strings; the regular expressions of   *)
(* the source are kept as regular expressions and matched by a             *)
(* backtracking matcher with Python's leftmost, greedy, first-alternative  *)
(* semantics.                                                              *)
(***************************************************************************)
EXTENDS Integers, Sequences, FiniteSets, TLC

VARIABLES pc, today, line, record, csv_cleaned, txt_matches, txt_read,
          out, wpos, error, fn, arg, res

vars == <<pc, today, line, record, csv_cleaned, txt_matches, txt_read,
          out, wpos, error, fn, arg, res>>

progVars == <<pc, today, line, record, csv_cleaned, txt_matches, txt_read,
              out, wpos, error>>

fnVars == <<fn, arg, res>>

-----------------------------------------------------------------------------
(* Characters and strings *)

\* The outcome of a call: a string, None, or a raised exception
None == [k |-> "none", v |-> ""]
Str(s) == [k |-> "str", v |-> s]
Raise(e) == [k |-> "raise", v |-> e]

\* `x or d`: None and the empty string are falsy
Or(x, d) == IF x = None \/ x = Str("") THEN d ELSE x.v

Ch(s, i) == SubSeq(s, i, i)

Digit == {"0", "1", "2", "3", "4", "5", "6", "7", "8", "9"}

Lower == {"a", "b", "c", "d", "e", "f", "g", "h", "i", "j", "k", "l", "m",
          "n", "o", "p", "q", "r", "s", "t", "u", "v", "w", "x", "y", "z"}

Upper == {"A", "B", "C", "D", "E", "F", "G", "H", "I", "J", "K", "L", "M",
          "N", "O", "P", "Q", "R", "S", "T", "U", "V", "W", "X", "Y", "Z"}

\* the characters \s matches
Space == {" ", "\t", "\n", "\r"}

\* `sub in s`
RECURSIVE ContainsAt(_, _, _)
ContainsAt(s, sub, i) ==
    IF i + Len(sub) - 1 > Len(s) THEN FALSE
    ELSE IF SubSeq(s, i, i + Len(sub) - 1) = sub THEN TRUE
    ELSE ContainsAt(s, sub, i + 1)

Contains(s, sub) == ContainsAt(s, sub, 1)

\* s.startswith(p)
StartsWith(s, p) == Len(s) >= Len(p) /\ SubSeq(s, 1, Len(p)) = p

\* s.strip()
RECURSIVE LStrip(_)
LStrip(s) == IF Len(s) > 0 /\ Ch(s, 1) \in Space THEN LStrip(SubSeq(s, 2, Len(s))) ELSE s

RECURSIVE RStrip(_)
RStrip(s) == IF Len(s) > 0 /\ Ch(s, Len(s)) \in Space THEN RStrip(SubSeq(s, 1, Len(s) - 1)) ELSE s

Strip(s) == RStrip(LStrip(s))

\* s.split(':', 1)[1], for s containing ':'
RECURSIVE AfterColon(_)
AfterColon(s) == IF Ch(s, 1) = ":" THEN SubSeq(s, 2, Len(s)) ELSE AfterColon(SubSeq(s, 2, Len(s)))

\* int(s) for a string of decimal digits
DigitVal(c) == CHOOSE n \in 0..9 : Ch("0123456789", n + 1) = c

RECURSIVE ToInt(_)
ToInt(s) == IF Len(s) = 0 THEN 0
            ELSE 10 * ToInt(SubSeq(s, 1, Len(s) - 1)) + DigitVal(Ch(s, Len(s)))

\* str(n) for n >= 0
RECURSIVE ToStr(_)
ToStr(n) == IF n < 10 THEN Ch("0123456789", n + 1)
            ELSE ToStr(n \div 10) \o Ch("0123456789", (n % 10) + 1)

-----------------------------------------------------------------------------
(* Regular expressions: the re module as the source uses it *)

Set(cs) == [t |-> "set", cs |-> cs]
Cat(rs) == [t |-> "cat", rs |-> rs]
Alt(rs) == [t |-> "alt", rs |-> rs]
Star(r) == [t |-> "star", r |-> r]
Plus(r) == Cat(<<r, Star(r)>>)
Opt(r) == Alt(<<r, Cat(<<>>)>>)
Rep(r, lo, hi) == [t |-> "rep", r |-> r, lo |-> lo, hi |-> hi]
Lit(str) == Cat([i \in 1..Len(str) |-> Set({Ch(str, i)})])

\* the elements of q that are not in seen, in order
RECURSIVE Fresh(_, _)
Fresh(q, seen) ==
    IF q = <<>> THEN <<>>
    ELSE IF Head(q) \in seen THEN Fresh(Tail(q), seen)
    ELSE <<Head(q)>> \o Fresh(Tail(q), seen \cup {Head(q)})

Range(q) == {q[i] : i \in 1..Len(q)}

\* Ends(re, s, i): the positions after a match of re that starts at s[i], in
\* the order the backtracking matcher tries them (first is the match taken).
RECURSIVE Ends(_, _, _)
RECURSIVE EndsFrom(_, _, _)
\* a, then what of b is not already in a
Then(a, b) == a \o Fresh(b, Range(a))

EndsFrom(re, s, starts) ==
    IF starts = <<>> THEN <<>>
    ELSE Then(Ends(re, s, Head(starts)), EndsFrom(re, s, Tail(starts)))

Ends(re, s, i) ==
    CASE re.t = "set" ->
           IF i <= Len(s) /\ Ch(s, i) \in re.cs THEN <<i + 1>> ELSE <<>>
      [] re.t = "cat" ->
           IF re.rs = <<>> THEN <<i>>
           ELSE EndsFrom(Cat(Tail(re.rs)), s, Ends(Head(re.rs), s, i))
      [] re.t = "alt" ->
           IF re.rs = <<>> THEN <<>>
           ELSE Then(Ends(Head(re.rs), s, i), Ends(Alt(Tail(re.rs)), s, i))
      [] re.t = "star" ->
           Then(EndsFrom(re, s, SelectSeq(Ends(re.r, s, i), LAMBDA j : j > i)), <<i>>)
      [] re.t = "rep" ->
           IF re.hi = 0 THEN <<i>>
           ELSE Then(EndsFrom(Rep(re.r, IF re.lo > 0 THEN re.lo - 1 ELSE 0, re.hi - 1),
                              s, Ends(re.r, s, i)),
                     IF re.lo = 0 THEN <<i>> ELSE <<>>)

\* re.search(re, s): the leftmost match, as [start, end) positions, or NoMatch
NoMatch == [start |-> 0, end |-> 0]

\* the match at i with ends e, or else the outcome of the search further on
MatchOr(i, e, further) ==
    IF e # <<>> THEN [start |-> i, end |-> Head(e)] ELSE further

RECURSIVE SearchFrom(_, _, _)
SearchFrom(re, s, i) ==
    IF i > Len(s) + 1 THEN NoMatch
    ELSE MatchOr(i, Ends(re, s, i), SearchFrom(re, s, i + 1))

Search(re, s) == SearchFrom(re, s, 1)

\* match.group(0)
Group0(s, m) == SubSeq(s, m.start, m.end - 1)

\* match.group(0) on a match, else the next fragment's outcome
GroupOr(text, m, next) == IF m # NoMatch THEN Str(Group0(text, m)) ELSE next

\* The boundaries of the first successful path of the concatenation rs from
\* s[i]: the end of each component, as the groups of a match object hold them
RECURSIVE PathFrom(_, _, _)
RECURSIVE PathTry(_, _, _)
PathOr(e, sub, other) ==
    IF sub.ok THEN [ok |-> TRUE, p |-> <<e>> \o sub.p] ELSE other

PathTry(rs, s, cands) ==
    IF cands = <<>> THEN [ok |-> FALSE, p |-> <<>>]
    ELSE PathOr(Head(cands), PathFrom(Tail(rs), s, Head(cands)),
                PathTry(rs, s, Tail(cands)))

PathFrom(rs, s, i) ==
    IF rs = <<>> THEN [ok |-> TRUE, p |-> <<>>]
    ELSE PathTry(rs, s, Ends(Head(rs), s, i))

-----------------------------------------------------------------------------
(* datetime: strptime and the formatting of a date *)

MonthNames == <<"January", "February", "March", "April", "May", "June", "July",
                "August", "September", "October", "November", "December">>

UpperChars == "ABCDEFGHIJKLMNOPQRSTUVWXYZ"
LowerChars == "abcdefghijklmnopqrstuvwxyz"

LowerOf(c) == IF c \in Upper
              THEN Ch(LowerChars, CHOOSE n \in 1..26 : Ch(UpperChars, n) = c)
              ELSE c

UpperOf(c) == IF c \in Lower
              THEN Ch(UpperChars, CHOOSE n \in 1..26 : Ch(LowerChars, n) = c)
              ELSE c

RECURSIVE ToLower(_)
ToLower(s) == IF Len(s) = 0 THEN "" ELSE LowerOf(Ch(s, 1)) \o ToLower(SubSeq(s, 2, Len(s)))

\* LocaleTime.f_month and a_month of the C locale (index 1 = January)
f_month == [m \in 1..12 |-> ToLower(MonthNames[m])]
a_month == [m \in 1..12 |-> SubSeq(f_month[m], 1, 3)]

\* a word matched under re.IGNORECASE
WordI(w) == Cat([i \in 1..Len(w) |-> Set({Ch(w, i), UpperOf(Ch(w, i))})])

\* TimeRE: the regex of each directive; the names are tried longest first
ByLength == <<9, 2, 11, 12, 1, 10, 8, 3, 4, 6, 7, 5>>

DirectiveRe(d) ==
    CASE d = "%d" -> Alt(<<Cat(<<Set({"3"}), Set({"0", "1"})>>),
                           Cat(<<Set({"1", "2"}), Set(Digit)>>),
                           Cat(<<Set({"0"}), Set(Digit \ {"0"})>>),
                           Set(Digit \ {"0"}),
                           Cat(<<Set({" "}), Set(Digit \ {"0"})>>)>>)
      [] d = "%m" -> Alt(<<Cat(<<Set({"1"}), Set({"0", "1", "2"})>>),
                           Cat(<<Set({"0"}), Set(Digit \ {"0"})>>),
                           Set(Digit \ {"0"})>>)
      [] d = "%Y" -> Rep(Set(Digit), 4, 4)
      [] d = "%B" -> Alt([i \in 1..12 |-> WordI(f_month[ByLength[i]])])
      [] d = "%b" -> Alt([i \in 1..12 |-> WordI(a_month[i])])
      [] d = " "  -> Plus(Set(Space))
      [] OTHER    -> Lit(d)

IsLeap(y) == y % 4 = 0 /\ (y % 100 # 0 \/ y % 400 = 0)

DaysInMonth(y, m) ==
    IF m = 2 THEN (IF IsLeap(y) THEN 29 ELSE 28)
    ELSE IF m \in {4, 6, 9, 11} THEN 30 ELSE 31

\* datetime.date(y, m, d) raises ValueError outside these ranges
ValidDate(y, m, d) ==
    /\ y \in 1..9999
    /\ m \in 1..12
    /\ d \in 1..DaysInMonth(y, m)

NoDate == [ok |-> FALSE, y |-> 0, m |-> 0, d |-> 0]

\* found_dict[d]: the text the directive d of fmt matched, given the ends p
\* of the components of the format's regex
Group(s, fmt, p, d) ==
    LET i == CHOOSE j \in 1..Len(fmt) : fmt[j] = d
    IN  SubSeq(s, IF i = 1 THEN 1 ELSE p[i - 1], p[i] - 1)

Has(fmt, d) == \E j \in 1..Len(fmt) : fmt[j] = d

MonthOf(s, fmt, p) ==
    IF Has(fmt, "%m") THEN ToInt(Group(s, fmt, p, "%m"))
    ELSE IF Has(fmt, "%B")
         THEN CHOOSE k \in 1..12 : f_month[k] = ToLower(Group(s, fmt, p, "%B"))
         ELSE CHOOSE k \in 1..12 : a_month[k] = ToLower(Group(s, fmt, p, "%b"))

DateOrError(y, m, d) ==
    IF ValidDate(y, m, d) THEN [ok |-> TRUE, y |-> y, m |-> m, d |-> d] ELSE NoDate

\* the date of a match: no match, unconverted data and an invalid date are
\* each a ValueError
DateOfMatch(s, fmt, path) ==
    IF ~path.ok THEN NoDate
    ELSE IF path.p[Len(fmt)] # Len(s) + 1 THEN NoDate
    ELSE DateOrError(ToInt(Group(s, fmt, path.p, "%Y")), MonthOf(s, fmt, path.p),
                     ToInt(Strip(Group(s, fmt, path.p, "%d"))))

\* datetime.strptime(s, fmt), fmt given as its sequence of directives and
\* literal characters; ok = FALSE stands for the ValueError it raises
strptime(s, fmt) ==
    DateOfMatch(s, fmt, PathFrom([i \in 1..Len(fmt) |-> DirectiveRe(fmt[i])], s, 1))

\* f"{month} {day}, {year}" with month = strftime("%B"), day and year ints
FormatDate(dt) == MonthNames[dt.m] \o " " \o ToStr(dt.d) \o ", " \o ToStr(dt.y)

\* strftime("%B %d, %Y"): %d is the day zero-padded to two digits and %Y the
\* year zero-padded to four
Pad(str, n) == IF Len(str) >= n THEN str ELSE SubSeq("0000", 1, n - Len(str)) \o str

strftime_BdY(dt) ==
    MonthNames[dt.m] \o " " \o Pad(ToStr(dt.d), 2) \o ", " \o Pad(ToStr(dt.y), 4)

-----------------------------------------------------------------------------
(* The extractors.  Each takes `line`, a sequence of fragments; a caller   *)
(* that passes one string passes the one-element sequence (the isinstance  *)
(* branch at the head of each function).                                   *)

\* r'[Pp][a-zA-Z]*[-_](\d{3})'
ProjRe == Cat(<<Set({"P", "p"}), Star(Set(Lower \cup Upper)), Set({"-", "_"}),
                Rep(Set(Digit), 3, 3)>>)

\* "PRO-{}".format(match[1]) on a match, else the next fragment's outcome
ProjOr(text, m, next) ==
    IF m # NoMatch THEN Str("PRO-" \o SubSeq(text, m.end - 3, m.end - 1)) ELSE next

RECURSIVE proj_code(_)
proj_code(ln) ==
    IF ln = <<>> THEN None
    ELSE ProjOr(Head(ln), Search(ProjRe, Head(ln)), proj_code(Tail(ln)))

\* r"[A-Z][a-z']+ ([A-Z][A-Za-z'.]+ ?)+"
VendorRe == Cat(<<Set(Upper), Plus(Set(Lower \cup {"'"})), Set({" "}),
                  Plus(Cat(<<Set(Upper), Plus(Set(Upper \cup Lower \cup {"'", "."})),
                             Opt(Set({" "}))>>))>>)

RECURSIVE vendor_name(_)
vendor_name(ln) ==
    IF ln = <<>> THEN None
    ELSE GroupOr(Head(ln), Search(VendorRe, Head(ln)), vendor_name(Tail(ln)))

\* r'[A-Z][a-zA-Z-/]*(?: [a-z]+)+'
DescriptionRe == Cat(<<Set(Upper), Star(Set(Lower \cup Upper \cup {"-", "/"})),
                       Plus(Cat(<<Set({" "}), Plus(Set(Lower))>>))>>)

RECURSIVE description(_)
description(ln) ==
    IF ln = <<>> THEN None
    ELSE GroupOr(Head(ln), Search(DescriptionRe, Head(ln)), description(Tail(ln)))

-----------------------------------------------------------------------------
(* invoice_amt *)

\* re.sub(r'[?,]', '', text)
RECURSIVE Clean(_)
Clean(s) == IF Len(s) = 0 THEN ""
            ELSE (IF Ch(s, 1) \in {"?", ","} THEN "" ELSE Ch(s, 1)) \o Clean(SubSeq(s, 2, Len(s)))

\* r'\d+\.\d{2}|\d+'
AmountRe == Alt(<<Cat(<<Plus(Set(Digit)), Set({"."}), Rep(Set(Digit), 2, 2)>>),
                  Plus(Set(Digit))>>)

\* the loop of invoice_amt: the numeric tokens, joined in fragment order
Token(clean, m) == IF m # NoMatch THEN Group0(clean, m) ELSE ""

TokenOf(clean) == Token(clean, Search(AmountRe, clean))

RECURSIVE JoinedTokens(_)
JoinedTokens(ln) ==
    IF ln = <<>> THEN ""
    ELSE (IF Contains(Head(ln), "-") \/ Contains(Head(ln), "/") THEN ""
          ELSE TokenOf(Clean(Head(ln))))
         \o JoinedTokens(Tail(ln))

\* float(s) accepts digits with at most one point, and at least one digit
\* (the tokens hold only digits and points); anything else is a ValueError
DotAt(s) == IF \E i \in 1..Len(s) : Ch(s, i) = "."
            THEN CHOOSE i \in 1..Len(s) : Ch(s, i) = "." /\ \A j \in 1..(i - 1) : Ch(s, j) # "."
            ELSE Len(s) + 1

IsFloatLiteral(s) ==
    /\ \E i \in 1..Len(s) : Ch(s, i) \in Digit
    /\ \A i \in 1..Len(s) : Ch(s, i) \in Digit \cup {"."}
    /\ Cardinality({i \in 1..Len(s) : Ch(s, i) = "."}) <= 1

RECURSIVE StripZeros(_)
StripZeros(s) == IF Len(s) > 1 /\ Ch(s, 1) = "0" THEN StripZeros(SubSeq(s, 2, Len(s))) ELSE s

\* the decimal numeral s + 1
RECURSIVE Succ(_)
Succ(s) == IF Len(s) = 0 THEN "1"
           ELSE IF Ch(s, Len(s)) = "9" THEN Succ(SubSeq(s, 1, Len(s) - 1)) \o "0"
           ELSE SubSeq(s, 1, Len(s) - 1) \o ToStr(DigitVal(Ch(s, Len(s))) + 1)

\* the ',' of the format spec: a comma before every group of three digits
RECURSIVE Thousands(_)
Thousands(s) == IF Len(s) <= 3 THEN s
                ELSE Thousands(SubSeq(s, 1, Len(s) - 3)) \o "," \o SubSeq(s, Len(s) - 2, Len(s))

\* The direction in which float(x) lies from x = a + r/1000, r > 0: "up",
\* "down", or "exact" when x is a binary fraction.  The 53 significant bits of
\* the double are produced by doubling the remainder; what is left after the
\* last bit decides the rounding (to nearest, ties to even).
RECURSIVE BitLen(_)
BitLen(a) == IF a = 0 THEN 0 ELSE 1 + BitLen(a \div 2)

RECURSIVE FloatSide(_, _, _, _)
FloatSide(r, bitsLeft, started, lastBit) ==
    IF r = 0 THEN "exact"
    ELSE IF bitsLeft = 0
         THEN (IF 2 * r > 1000 \/ (2 * r = 1000 /\ lastBit = 1) THEN "up" ELSE "down")
         ELSE LET b == IF 2 * r >= 1000 THEN 1 ELSE 0
                  on == started \/ b = 1
              IN  FloatSide(2 * r - 1000 * b, IF on THEN bitsLeft - 1 ELSE bitsLeft, on, b)

IsUp(side, f2) ==
    IF side = "exact" THEN DigitVal(Ch(f2, 2)) % 2 = 1 ELSE side = "up"

\* ip.f2 rounded up (away from zero) or kept, with the thousands separators
Rounded(digits) ==
    Thousands(SubSeq(digits, 1, Len(digits) - 2)) \o "."
      \o SubSeq(digits, Len(digits) - 1, Len(digits))

\* whether ip.f2<rest> rounds up to two decimals: more than half, or exactly
\* half with the double above the literal (or equal to it and f2 odd)
RoundsUp(a, f2, rest) ==
    IF Len(rest) = 0 \/ DigitVal(Ch(rest, 1)) < 5 THEN FALSE
    ELSE IF DigitVal(Ch(rest, 1)) > 5 \/ \E i \in 2..Len(rest) : Ch(rest, i) # "0" THEN TRUE
    ELSE IsUp(FloatSide(ToInt(f2 \o "5"), 53 - BitLen(a), a > 0, a % 2), f2)

Round2(ip, fp) ==
    Rounded(IF RoundsUp(ToInt(ip), SubSeq(fp, 1, 2), SubSeq(fp, 3, Len(fp)))
            THEN Succ(ip \o SubSeq(fp, 1, 2)) ELSE ip \o SubSeq(fp, 1, 2))

\* f'{float(final):,.2f}' for a float literal of digits with at most one
\* point and an integer part below 2^31: the double nearest to the literal,
\* rounded to two decimals (the exact value of the double decides a tie)
FormatFloat2(final) ==
    Round2(StripZeros(IF DotAt(final) = 1 THEN "0" ELSE SubSeq(final, 1, DotAt(final) - 1)),
           SubSeq(final, DotAt(final) + 1, Len(final)) \o "00")

FloatOrError(final) ==
    IF IsFloatLiteral(final) THEN Str("$" \o FormatFloat2(final)) ELSE Raise("ValueError")

invoice_amt(ln) == FloatOrError(JoinedTokens(ln))

-----------------------------------------------------------------------------
(* The date normalizer *)

\* r'[A-Z][a-z]+ \d+([a-z]*)?, \d{4}'
TextDateRe == Cat(<<Set(Upper), Plus(Set(Lower)), Set({" "}), Plus(Set(Digit)),
                    Opt(Star(Set(Lower))), Set({","}), Set({" "}),
                    Rep(Set(Digit), 4, 4)>>)

\* r'(\d+)(st|th|nd|rd)'
OrdinalRe == Cat(<<Plus(Set(Digit)), Alt(<<Lit("st"), Lit("th"), Lit("nd"), Lit("rd")>>)>>)

\* re.sub(OrdinalRe, r'\1', s): every match loses its two suffix letters
RECURSIVE SubOrdinalFrom(_, _)
RECURSIVE SubOrdinalAt(_, _, _)
SubOrdinalAt(s, i, m) ==
    IF m = NoMatch THEN SubSeq(s, i, Len(s))
    ELSE SubSeq(s, i, m.end - 3) \o SubOrdinalFrom(s, m.end)

SubOrdinalFrom(s, i) == SubOrdinalAt(s, i, SearchFrom(OrdinalRe, s, i))

\* variant: the ordinal suffixes are left in place
SubOrdinal_kept(s) == s

SubOrdinal(s) == SubOrdinalFrom(s, 1)

text_formats == << <<"%B", " ", "%d", ",", " ", "%Y">>,
                   <<"%b", " ", "%d", ",", " ", "%Y">> >>

\* variant: the day/month grammars tried before the month/day ones
num_formats_dmy_first == << <<"%d", "/", "%m", "/", "%Y">>,
                            <<"%d", "-", "%m", "-", "%Y">>,
                            <<"%Y", "-", "%m", "-", "%d">>,
                            <<"%Y", "/", "%m", "/", "%d">>,
                            <<"%m", "/", "%d", "/", "%Y">>,
                            <<"%m", "-", "%d", "-", "%Y">> >>

num_formats == << <<"%m", "/", "%d", "/", "%Y">>,
                  <<"%m", "-", "%d", "-", "%Y">>,
                  <<"%Y", "-", "%m", "-", "%d">>,
                  <<"%Y", "/", "%m", "/", "%d">>,
                  <<"%d", "/", "%m", "/", "%Y">>,
                  <<"%d", "-", "%m", "-", "%Y">> >>

\* the `for fmt in formats: try ... except ValueError: continue` loop, and
\* the `return None` after it
FormattedOr(date_obj, next) ==
    IF date_obj.ok THEN Str(FormatDate(date_obj)) ELSE next

RECURSIVE TryFormats(_, _)
TryFormats(s, fmts) ==
    IF fmts = <<>> THEN None
    ELSE FormattedOr(strptime(s, Head(fmts)), TryFormats(s, Tail(fmts)))

\* the first fragment with the pattern decides: its parse, or None
TextOr(text, m, next) ==
    IF m # NoMatch THEN TryFormats(SubOrdinal(Group0(text, m)), text_formats) ELSE next

RECURSIVE text_date(_)
text_date(ln) ==
    IF ln = <<>> THEN None
    ELSE TextOr(Head(ln), Search(TextDateRe, Head(ln)), text_date(Tail(ln)))

\* r'(\d{2}[/-]\d{2}[/-]\d{2,4})|(\d{2,4}[/-]\d{2}[/-]\d{2})'
NumberDateRe ==
    Alt(<<Cat(<<Rep(Set(Digit), 2, 2), Set({"/", "-"}), Rep(Set(Digit), 2, 2),
                Set({"/", "-"}), Rep(Set(Digit), 2, 4)>>),
          Cat(<<Rep(Set(Digit), 2, 4), Set({"/", "-"}), Rep(Set(Digit), 2, 2),
                Set({"/", "-"}), Rep(Set(Digit), 2, 2)>>)>>)

NumberOr(text, m, next) ==
    IF m # NoMatch THEN TryFormats(Group0(text, m), num_formats) ELSE next

RECURSIVE number_date(_)
number_date(ln) ==
    IF ln = <<>> THEN None
    ELSE NumberOr(Head(ln), Search(NumberDateRe, Head(ln)), number_date(Tail(ln)))

\* each fragment in turn: text_date on it, then number_date on it
\* `if result: return result`, twice, else on to the next fragment
FirstResult(t, n, next) ==
    IF t # None /\ t # Str("") THEN t
    ELSE IF n # None /\ n # Str("") THEN n
    ELSE next

\* variant: text_date over the whole record first, then number_date over the
\* whole record
date_cleaner_by_stage(ln) == FirstResult(text_date(ln), number_date(ln), None)

\* variant: a fragment that holds the textual pattern never reaches
\* number_date
RECURSIVE date_cleaner_definitive(_)
date_cleaner_definitive(ln) ==
    IF ln = <<>> THEN None
    ELSE FirstResult(text_date(<<Head(ln)>>),
                     IF Search(TextDateRe, Head(ln)) # NoMatch THEN None
                     ELSE number_date(<<Head(ln)>>),
                     date_cleaner_definitive(Tail(ln)))

RECURSIVE date_cleaner(_)
date_cleaner(ln) ==
    IF ln = <<>> THEN None
    ELSE FirstResult(text_date(<<Head(ln)>>), number_date(<<Head(ln)>>),
                     date_cleaner(Tail(ln)))

-----------------------------------------------------------------------------
(* The script body: bounds and inputs *)

MaxRows == 2
MaxLines == 3
MaxFrags == 2

\* the days datetime.now() may report during a run
Days == {[ok |-> TRUE, y |-> 2025, m |-> 3, d |-> 1],
         [ok |-> TRUE, y |-> 2025, m |-> 11, d |-> 23]}

\* data rows of freelancer_invoices_raw.csv, as csv.reader yields them
CsvRows == {
    <<"proj-002", "$1", "450.00", "John Smith Consulting", "03/15/2025">>,
    <<"P-001", "Mike's Dev Shop", "300", "March 1st, 2025", "UI/UX design work">>,
    <<"n/a", "12", "none">>,
    <<"PROJECT-003", "1.50", "2.50", "Ann Lee Co.", "2025-03-20">>,
    <<"project_004", "Ann Lee Co.", "TBD", "Logo design">> }

\* lines of contractor_payments.txt, as iterating the file yields them
TxtLines == {
    "=== CONTRACTOR PAYMENTS ===\n",
    "---\n",
    "\n",
    "Notes: paid in full\n",
    "Vendor: John Smith Consulting\n",
    "Amount: $2,000.00\n",
    "Amount: TBD\n",
    "Project: proj-002\n",
    "Description: Web development work\n",
    "Date: 13/04/2025" }

EmptyRecord == [key \in {} |-> ""]

\* record[key] = value
Put(rec, key, value) ==
    [x \in DOMAIN rec \cup {key} |-> IF x = key THEN value ELSE rec[x]]

\* datetime.now().strftime("%B %d, %Y")
Now == strftime_BdY(today)

\* the script as it starts
ProgInit ==
    /\ pc = "csv"
    /\ today \in Days
    /\ line = <<>>
    /\ record = EmptyRecord
    /\ csv_cleaned = <<>>
    /\ txt_matches = <<>>
    /\ txt_read = <<>>
    /\ out = <<>>
    /\ wpos = 0
    /\ error = "none"

Init ==
    /\ ProgInit
    /\ fn = "none"
    /\ arg = <<>>
    /\ res = None

\* an uncaught exception ends the run
Crash(e) == pc' = "error" /\ error' = e

\* the record of a row, given the outcome amt of invoice_amt on it
CsvRecord(row, amt) ==
    Put(Put(Put(Put(Put(Put(EmptyRecord,
        "Vendor", Or(vendor_name(row), "MISSING")),
        "Amount", Or(amt, "MISSING")),
        "Date Processed", Now),
        "Project Code", Or(proj_code(row), "MISSING")),
        "Description", Or(description(row), "MISSING")),
        "Original Date", Or(date_cleaner(row), "MISSING"))

AppendCsv(rec) ==
    /\ record' = rec
    /\ csv_cleaned' = Append(csv_cleaned, rec)
    /\ UNCHANGED <<pc, error>>

\* the body of the loop: Vendor is set, then invoice_amt either raises or
\* the rest of the record is set and the record appended
CsvBody(row, amt) ==
    IF amt.k = "raise"
    THEN /\ Crash(amt.v)
         /\ record' = Put(EmptyRecord, "Vendor", Or(vendor_name(row), "MISSING"))
         /\ UNCHANGED csv_cleaned
    ELSE AppendCsv(CsvRecord(row, amt))

\* one iteration of the loop over the CSV rows
ReadCsvRow ==
    /\ pc = "csv"
    /\ Len(csv_cleaned) < MaxRows
    /\ \E row \in CsvRows :
         /\ line' = row
         /\ CsvBody(row, invoice_amt(row))
    /\ UNCHANGED <<today, txt_matches, txt_read, out, wpos, fnVars>>

\* the CSV file is exhausted; the text file is opened
CsvEnd ==
    /\ pc = "csv"
    /\ pc' = "txt"
    /\ record' = EmptyRecord
    /\ UNCHANGED <<today, line, csv_cleaned, txt_matches, txt_read, out, wpos,
                   error, fnVars>>

\* the record closed by a separator or by the end of the file
Closed(rec) == Put(Put(rec, "Date Processed", Now), "Generated On", Now)

\* the field a labeled line sets: its key and its extractor's outcome, or
\* key "" for a line with none of the five labels
Routed(ln) ==
    LET cleaned_line == Strip(AfterColon(ln))
    IN  IF StartsWith(ln, "Vendor: ")
          THEN [key |-> "Vendor", val |-> vendor_name(<<cleaned_line>>)]
        ELSE IF StartsWith(ln, "Amount: ")
          THEN [key |-> "Amount", val |-> invoice_amt(<<cleaned_line>>)]
        ELSE IF StartsWith(ln, "Project: ")
          THEN [key |-> "Project Code", val |-> proj_code(<<cleaned_line>>)]
        ELSE IF StartsWith(ln, "Date: ")
          THEN [key |-> "Original Date", val |-> date_cleaner(<<cleaned_line>>)]
        ELSE IF StartsWith(ln, "Description: ")
          THEN [key |-> "Description", val |-> description(<<cleaned_line>>)]
        ELSE [key |-> "", val |-> None]

\* the branch of the loop body that sets a field of the record
SetField(f) ==
    IF f.val.k = "raise"
    THEN Crash(f.val.v) /\ UNCHANGED record
    ELSE /\ record' = IF f.key = "" THEN record
                      ELSE Put(record, f.key, Or(f.val, "MISSING"))
         /\ UNCHANGED <<pc, error>>

\* one iteration of the loop over the lines of the text file
ReadTxtLine ==
    /\ pc = "txt"
    /\ Len(txt_read) < MaxLines
    /\ \E l \in TxtLines :
         /\ txt_read' = Append(txt_read, l)
         /\ IF Contains(l, "---")
            THEN /\ line' = l
                 /\ IF record # EmptyRecord
                    THEN /\ txt_matches' = Append(txt_matches, Closed(record))
                         /\ record' = EmptyRecord
                    ELSE UNCHANGED <<txt_matches, record>>
                 /\ UNCHANGED <<pc, error>>
            ELSE IF l = "" \/ Contains(l, "=") \/ ~Contains(l, ":")
            THEN /\ line' = l
                 /\ UNCHANGED <<txt_matches, record, pc, error>>
            ELSE /\ line' = Strip(l)
                 /\ UNCHANGED txt_matches
                 /\ SetField(Routed(Strip(l)))
    /\ UNCHANGED <<today, csv_cleaned, out, wpos, fnVars>>

\* the text file is exhausted: the final record, then the report is opened
\* and its header written
TxtEnd ==
    /\ pc = "txt"
    /\ txt_matches' = IF record # EmptyRecord THEN Append(txt_matches, Closed(record))
                      ELSE txt_matches
    /\ record' = IF record # EmptyRecord THEN Closed(record) ELSE record
    /\ out' = <<"TECHSTART SOLUTIONS - STANDARDIZED INVOICE RECORD\n",
                "================================================\n">>
    /\ wpos' = 1
    /\ pc' = "report"
    /\ UNCHANGED <<today, line, csv_cleaned, txt_read, error, fnVars>>

all_records == csv_cleaned \o txt_matches

\* the keys the report writer reads, in the order it reads them
ReportKeys == <<"Vendor", "Amount", "Date Processed", "Project Code",
                "Original Date", "Description">>

\* the lines written for rec before the first key it lacks
RECURSIVE FieldLines(_, _)
FieldLines(rec, i) ==
    IF i > Len(ReportKeys) \/ ReportKeys[i] \notin DOMAIN rec THEN <<>>
    ELSE <<ReportKeys[i] \o ": " \o rec[ReportKeys[i]] \o "\n">> \o FieldLines(rec, i + 1)

\* the writes for one record: a missing key raises KeyError after the lines
\* before it are written
WriteLines(written) ==
    IF Len(written) < Len(ReportKeys)
    THEN /\ out' = out \o written
         /\ Crash("KeyError")
         /\ UNCHANGED wpos
    ELSE /\ out' = out \o written \o <<"Status: Processed\n", "\n", "---\n">>
         /\ wpos' = wpos + 1
         /\ UNCHANGED <<pc, error>>

\* one iteration of the loop over all_records
WriteRecord ==
    /\ pc = "report"
    /\ wpos <= Len(all_records)
    /\ record' = all_records[wpos]
    /\ WriteLines(FieldLines(all_records[wpos], 1))
    /\ UNCHANGED <<today, line, csv_cleaned, txt_matches, txt_read, fnVars>>

\* the trailing timestamp line
WriteFooter ==
    /\ pc = "report"
    /\ wpos > Len(all_records)
    /\ out' = Append(out, "Generated On " \o Now \o "\n")
    /\ pc' = "done"
    /\ UNCHANGED <<today, line, record, csv_cleaned, txt_matches, txt_read, wpos,
                   error, fnVars>>

Next == ReadCsvRow \/ CsvEnd \/ ReadTxtLine \/ TxtEnd \/ WriteRecord \/ WriteFooter

Spec == Init /\ [][Next]_vars

-----------------------------------------------------------------------------
(* The extractors called on their own, as the unit tests call them: an     *)
(* input is drawn, one function is applied to it, and date_cleaner may be  *)
(* applied again to its own result.                                        *)

Frags == {"proj-002", "$1", "450.00", "1.50", "John Smith Consulting",
          "03/15/2025", "13/04/2025", "03/20/25", "March 1st, 2025",
          "Xyz 15, 2025 03/15/2025"}

\* the fragment sequences of 1 to n fragments
RECURSIVE SeqsUpTo(_)
SeqsUpTo(n) ==
    IF n = 0 THEN {}
    ELSE {<<f>> : f \in Frags}
         \cup {Append(q, f) : q \in SeqsUpTo(n - 1), f \in Frags}

Seps == {"/", "-"}
TwoDigits == {"00", "01", "04", "12", "13", "29", "30", "31", "32"}
Years == {"2025", "2024", "0999", "25"}

\* numeric dates, year last and year first, with every pairing of separators
NumDates ==
    {a \o s1 \o b \o s2 \o y : a \in TwoDigits, b \in TwoDigits, y \in Years,
                               s1 \in Seps, s2 \in Seps}
    \cup {y \o s1 \o a \o s2 \o b : a \in TwoDigits, b \in TwoDigits, y \in Years,
                                    s1 \in Seps, s2 \in Seps}

MonthWords == {"March", "Mar", "February", "Feb", "May", "June", "Sept", "Xyz"}
DayStrs == {"0", "1", "01", "9", "13", "29", "30", "31", "32"}
Suffixes == {"", "st", "nd", "rd", "th", "xx"}

TextDates ==
    {w \o " " \o d \o x \o ", " \o y : w \in MonthWords, d \in DayStrs,
                                       x \in Suffixes, y \in Years \ {"25"}}

OtherInputs == {
    <<"proj-002", "$1", "450.00", "John Smith Consulting", "03/15/2025">>,
    <<"1,450.00">>, <<"1?5">>, <<"12 34">>, <<"007">>, <<"TBD">>, <<"">>,
    <<"0.125">>, <<"1.00", "5">>, <<"2.67", "5">>, <<"0.37", "5">>,
    <<"999.99", "5">>, <<"x03/04/20255">>, <<"Due Mar 2nd, 2025.">> }

FnInputs ==
    SeqsUpTo(MaxFrags) \cup {<<d>> : d \in NumDates \cup TextDates} \cup OtherInputs

InitFn ==
    /\ ProgInit
    /\ fn = "none"
    /\ arg \in FnInputs
    /\ res = None

Returned(name, result) ==
    /\ fn' = name
    /\ res' = result
    /\ UNCHANGED <<arg, progVars>>

CallInvoiceAmt ==
    /\ fn = "none"
    /\ Returned("invoice_amt", invoice_amt(arg))

CallTextDate ==
    /\ fn = "none"
    /\ Returned("text_date", text_date(arg))

CallNumberDate ==
    /\ fn = "none"
    /\ Returned("number_date", number_date(arg))

CallDateCleaner ==
    /\ fn = "none"
    /\ Returned("date_cleaner", date_cleaner(arg))

\* date_cleaner applied to the date string it returned
Renormalize ==
    /\ fn = "date_cleaner"
    /\ res.k = "str"
    /\ fn' = "renormalize"
    /\ arg' = <<res.v>>
    /\ res' = date_cleaner(<<res.v>>)
    /\ UNCHANGED progVars

NextFn == CallInvoiceAmt \/ CallTextDate \/ CallNumberDate \/ CallDateCleaner
          \/ Renormalize

SpecFn == InitFn /\ [][NextFn]_vars

-----------------------------------------------------------------------------
(* Properties *)

RequiredKeys == {"Vendor", "Amount", "Date Processed", "Project Code",
                 "Description", "Original Date"}

\* C1: every normalized record, from either source, holds all six required
\* keys (a field that was not extracted holds "MISSING"), so the report
\* writer never meets a record that lacks a key.
C1_EveryKeyPresent ==
    /\ \A i \in 1..Len(all_records) : RequiredKeys \subseteq DOMAIN all_records[i]
    /\ error # "KeyError"

\* no fragment yields a numeric token: each holds a hyphen or a slash, or no
\* digit
NoNumericToken(ln) ==
    \A i \in 1..Len(ln) :
        \/ Contains(ln[i], "-")
        \/ Contains(ln[i], "/")
        \/ \A j \in 1..Len(ln[i]) : Ch(ln[i], j) \notin Digit

\* C2: when no fragment yields a numeric token, invoice_amt returns absent
\* and raises nothing.
C2_AbsentWithoutError ==
    (fn = "invoice_amt" /\ NoNumericToken(arg)) => res = None

\* C3: for every fragment sequence that yields a token, invoice_amt returns
\* the textual join of the tokens, as a decimal number, formatted as "$" with
\* thousands separators and two decimals.
C3_JoinedAndFormatted ==
    (fn = "invoice_amt" /\ ~NoNumericToken(arg)) =>
        /\ res.k = "str"
        /\ IsFloatLiteral(JoinedTokens(arg))
        /\ res = Str("$" \o FormatFloat2(JoinedTokens(arg)))

\* A numeric date string: two separators and three groups of digits, of
\* 2, 2 and 2 to 4 digits or of 2 to 4, 2 and 2 digits.
SepAt(s) == {i \in 1..Len(s) : Ch(s, i) \in Seps}
Sep1(s) == CHOOSE i \in SepAt(s) : \A j \in SepAt(s) : i <= j
Sep2(s) == CHOOSE i \in SepAt(s) : \A j \in SepAt(s) : i >= j
Part(s, n) ==
    CASE n = 1 -> SubSeq(s, 1, Sep1(s) - 1)
      [] n = 2 -> SubSeq(s, Sep1(s) + 1, Sep2(s) - 1)
      [] n = 3 -> SubSeq(s, Sep2(s) + 1, Len(s))
AllDigits(t) == \A i \in 1..Len(t) : Ch(t, i) \in Digit
IsNumericDate(s) ==
    /\ Cardinality(SepAt(s)) = 2
    /\ \A n \in 1..3 : AllDigits(Part(s, n))
    /\ Len(Part(s, 2)) = 2
    /\ \/ Len(Part(s, 1)) = 2 /\ Len(Part(s, 3)) \in 2..4
       \/ Len(Part(s, 1)) \in 2..4 /\ Len(Part(s, 3)) = 2

\* The six grammars in their fixed order: which part is the year, the month
\* and the day, and the separator.
Grammars == << [y |-> 3, m |-> 1, d |-> 2, sep |-> "/"],
               [y |-> 3, m |-> 1, d |-> 2, sep |-> "-"],
               [y |-> 1, m |-> 2, d |-> 3, sep |-> "-"],
               [y |-> 1, m |-> 2, d |-> 3, sep |-> "/"],
               [y |-> 3, m |-> 2, d |-> 1, sep |-> "/"],
               [y |-> 3, m |-> 2, d |-> 1, sep |-> "-"] >>

\* grammar g parses s: both separators are g's, the year has four digits,
\* month and day two, and they name a calendar date
Parses(s, g) ==
    /\ Ch(s, Sep1(s)) = g.sep /\ Ch(s, Sep2(s)) = g.sep
    /\ Len(Part(s, g.y)) = 4 /\ Len(Part(s, g.m)) = 2 /\ Len(Part(s, g.d)) = 2
    /\ ValidDate(ToInt(Part(s, g.y)), ToInt(Part(s, g.m)), ToInt(Part(s, g.d)))

Reading(s, g) ==
    Str(FormatDate([y |-> ToInt(Part(s, g.y)), m |-> ToInt(Part(s, g.m)),
                    d |-> ToInt(Part(s, g.d))]))

FirstParsing(s) == CHOOSE i \in 1..6 : Parses(s, Grammars[i])
                                       /\ \A j \in 1..(i - 1) : ~Parses(s, Grammars[j])

\* C4: a numeric date resolves by the first grammar that parses it, in the
\* order MDY/, MDY-, YMD-, YMD/, DMY/, DMY-; the day/month reading is returned
\* only when the first component is above 12 (or both readings agree); a
\* string no grammar parses, a two-digit year among them, yields absent.
C4_FirstGrammarWins ==
    (fn = "number_date" /\ Len(arg) = 1 /\ IsNumericDate(arg[1])) =>
        LET s == arg[1]
        IN  /\ IF \E i \in 1..6 : Parses(s, Grammars[i])
               THEN res = Reading(s, Grammars[FirstParsing(s)])
               ELSE res = None
            /\ (Len(Part(s, 1)) = 2 /\ Len(Part(s, 3)) = 2) => res = None
            /\ \A i \in {5, 6} :
                 (Parses(s, Grammars[i]) /\ res = Reading(s, Grammars[i])) =>
                     \/ ToInt(Part(s, 1)) > 12
                     \/ Part(s, 1) = Part(s, 2)

\* 04/12/2025, valid as month/day and as day/month, came out as April 12
C4_Witness ==
    /\ fn = "number_date"
    /\ arg = <<"04/12/2025">>
    /\ res = Str("April 12, 2025")

\* A text date: a month word, a space, a day of one or two digits, an
\* optional ordinal suffix, ", " and a four-digit year.
WordEnd(s) == CHOOSE i \in 1..Len(s) : Ch(s, i) = " " /\ \A j \in 1..(i - 1) : Ch(s, j) # " "
DayAndSuffix(s) == SubSeq(s, WordEnd(s) + 1, Len(s) - 6)
DayLen(s) == Cardinality({i \in 1..Len(DayAndSuffix(s)) : Ch(DayAndSuffix(s), i) \in Digit})
DayPart(s) == SubSeq(DayAndSuffix(s), 1, DayLen(s))
SuffixPart(s) == SubSeq(DayAndSuffix(s), DayLen(s) + 1, Len(DayAndSuffix(s)))
YearPart(s) == SubSeq(s, Len(s) - 3, Len(s))
MonthWord(s) == SubSeq(s, 1, WordEnd(s) - 1)
IsMonthWord(w) == \E m \in 1..12 : w = MonthNames[m] \/ w = SubSeq(MonthNames[m], 1, 3)
MonthNumber(w) == CHOOSE m \in 1..12 : w = MonthNames[m] \/ w = SubSeq(MonthNames[m], 1, 3)

IsTextDate(s) ==
    /\ Len(s) >= 11
    /\ \E i \in 1..Len(s) : Ch(s, i) = " "
    /\ SubSeq(s, Len(s) - 5, Len(s) - 4) = ", "
    /\ AllDigits(YearPart(s))
    /\ IsMonthWord(MonthWord(s))
    /\ DayLen(s) \in 1..2
    /\ AllDigits(DayPart(s))
    /\ SuffixPart(s) \in {"", "st", "nd", "rd", "th"}
    /\ ValidDate(ToInt(YearPart(s)), MonthNumber(MonthWord(s)), ToInt(DayPart(s)))

\* C5: a valid text date gives "<FullMonthName> <Day>, <Year>", the suffix
\* stripped and the day without its leading zero (the year as a number); an
\* input that holds no ", " holds no text date and gives absent.
C5_TextDateCanonical ==
    (fn = "text_date" /\ Len(arg) = 1) =>
        /\ IsTextDate(arg[1]) =>
             res = Str(MonthNames[MonthNumber(MonthWord(arg[1]))] \o " "
                       \o ToStr(ToInt(DayPart(arg[1]))) \o ", "
                       \o ToStr(ToInt(YearPart(arg[1]))))
        /\ ~Contains(arg[1], ", ") => res = None

\* an abbreviated month, a zero-padded day and an ordinal suffix
C5_Witness ==
    /\ fn = "text_date"
    /\ arg = <<"Feb 01st, 2024">>
    /\ res = Str("February 1, 2024")

\* C6: date_cleaner applied to a date string it returned returns that string.
C6_Idempotent ==
    fn = "renormalize" => res = Str(arg[1])

\* C7: Date Processed of every record is the processing date as a Canonical
\* Date, "<FullMonthName> <Day>, <Year>" with the day not zero-padded, and is
\* never "MISSING".
C7_DateProcessedCanonical ==
    \A i \in 1..Len(all_records) :
        /\ "Date Processed" \in DOMAIN all_records[i]
        /\ all_records[i]["Date Processed"] # "MISSING"
        /\ all_records[i]["Date Processed"] = FormatDate(today)

\* the date a fragment yields on its own, textual or numeric
FragDate(f) == FirstResult(text_date(<<f>>), number_date(<<f>>), None)

Yielding(ln) == {i \in 1..Len(ln) : FragDate(ln[i]) # None}

\* C8: date_cleaner returns the date of the earliest fragment that yields
\* one, and absent exactly when no fragment yields a date.
C8_EarliestFragmentWins ==
    fn = "date_cleaner" =>
        IF Yielding(arg) = {} THEN res = None
        ELSE res = FragDate(arg[CHOOSE i \in Yielding(arg) :
                                   \A j \in Yielding(arg) : i <= j])

\* the first fragment yields nothing and the scan goes on to the second
C8_Witness ==
    /\ fn = "date_cleaner"
    /\ arg = <<"03/20/25", "13/04/2025">>
    /\ res = Str("April 13, 2025")

\* the textual pattern is in the fragment and neither month grammar parses it
PatternUnparsed(f) ==
    Search(TextDateRe, f) # NoMatch /\ text_date(<<f>>) = None

\* C9 as claimed: a fragment whose textual pattern does not parse is a
\* definitive "no date", and a numeric date in it is not returned.
C9_DefinitiveNoDate ==
    (fn = "date_cleaner" /\ Len(arg) = 1 /\ PatternUnparsed(arg[1])) => res = None

\* C9 as amended: the numeric path is taken whenever the text stage returns
\* no date for the fragment, also when its textual pattern was found and did
\* not parse; a numeric date in that fragment is then returned.
C9_NumericPathOnNoTextDate ==
    (fn = "date_cleaner" /\ Len(arg) = 1) =>
        /\ text_date(arg) # None => res = text_date(arg)
        /\ text_date(arg) = None => res = number_date(arg)

C9_Witness ==
    /\ fn = "date_cleaner"
    /\ arg = <<"Xyz 15, 2025 03/15/2025">>
    /\ PatternUnparsed(arg[1])
    /\ res = Str("March 15, 2025")

\* The blocks of the lines read: a separator line ends a block; a block's
\* keys are those of its recognized labeled lines.
IsSeparator(l) == Contains(l, "---")

LabelKeys == [Vendor |-> "Vendor", Amount |-> "Amount", Project |-> "Project Code",
              Date |-> "Original Date", Description |-> "Description"]

KeysOfLine(l) ==
    IF IsSeparator(l) \/ Contains(l, "=") \/ ~Contains(l, ":") THEN {}
    ELSE {LabelKeys[lb] : lb \in {x \in DOMAIN LabelKeys : StartsWith(Strip(l), x \o ": ")}}

\* the key sets of the blocks of ls that hold a recognized labeled line, in
\* order; cur is the key set of the block being read
RECURSIVE BlockKeys(_, _)
BlockKeys(ls, cur) ==
    IF ls = <<>> THEN (IF cur = {} THEN <<>> ELSE <<cur>>)
    ELSE IF IsSeparator(Head(ls))
         THEN (IF cur = {} THEN <<>> ELSE <<cur>>) \o BlockKeys(Tail(ls), {})
         ELSE BlockKeys(Tail(ls), cur \cup KeysOfLine(Head(ls)))

FieldKeys(rec) == DOMAIN rec \ {"Date Processed", "Generated On"}

\* C10: the records emitted, followed by the record being accumulated while
\* the file is still read, match the blocks of the lines read that hold a
\* recognized labeled line, one to one and in order.
C10_RecordsMatchBlocks ==
    (pc \in {"txt", "report", "done"} \/ (pc = "error" /\ txt_read # <<>>)) =>
        [i \in 1..Len(txt_matches) |-> FieldKeys(txt_matches[i])]
          \o (IF pc \in {"txt", "error"} /\ error # "KeyError" /\ record # EmptyRecord
              THEN <<FieldKeys(record)>> ELSE <<>>)
        = BlockKeys(txt_read, {})

====
